---- MODULE Spec2Model ----
(***************************************************************************)
(* A model of the type-coercion engine of librustc                         *)
(* (src/librustc/middle/typeck/infer/coercion.rs).                         *)
(*                                                                         *)
(* Types, regions, adjustments and errors are tagged tuples whose first    *)
(* element is the variant name used by the source (ty_rptr, AutoPtr, ...). *)
(* The inference context is a record of the type-variable bindings, the    *)
(* region constraints and the number of region variables allocated.        *)
(*                                                                         *)
(* The subtyping combiner (Sub), the resolver and the transaction          *)
(* primitive (infcx.try) live outside coercion.rs; they are modelled from  *)
(* the specification's description of their interfaces.                    *)
(***************************************************************************)
EXTENDS Integers, Sequences, FiniteSets, TLC

\* ------------------------------------------------------------------ bounds

\* Fixed-size arrays [T, ..n] have lengths 1 .. MaxLen.
MaxLen == 2

\* Owned arrays ~[A] that are cloned have lengths 0 .. MaxCloneLen.
MaxCloneLen == 3

\* Region variables the type checker may have allocated before the coercion.
MaxRegionVars == 1

\* ------------------------------------------------------------------- state

VARIABLES
    infcx,      \* the inference context
    status,     \* "none" before the coercion, "returned" after it
    arg_a,      \* the arguments of the coercion
    arg_b,
    cx_before,  \* the context the coercion started in
    result,     \* the CoerceResult
    attempts,   \* the rules tys attempted, in order
    clone       \* the frame of a call of clone on a ~[A], and what it did

vars == <<infcx, status, arg_a, arg_b, cx_before, result, attempts, clone>>

\* ------------------------------------------------------- the type universe

MutMutable == "MutMutable"
MutImmutable == "MutImmutable"
Mutabilities == {MutMutable, MutImmutable}

\* A named (free) region, and the region variable number id.
ReFree == <<"ReFree", 0>>
ReInfer(id) == <<"ReInfer", id>>

\* Option<uint>, the length of a ty_vec.
NoLen == <<>>
SomeLen(n) == <<n>>

ty_int == <<"ty_int">>
ty_uint == <<"ty_uint">>
ty_str == <<"ty_str">>
ty_infer(id) == <<"ty_infer", id>>
mk_box(t) == <<"ty_box", t>>
mk_uniq(t) == <<"ty_uniq", t>>
mk_rptr(r, m, t) == <<"ty_rptr", r, m, t>>
mk_ptr(m, t) == <<"ty_ptr", m, t>>
mk_vec(t, len) == <<"ty_vec", t, len>>
mk_slice(r, m, t) == mk_rptr(r, m, mk_vec(t, NoLen))

UniqTraitStore == <<"UniqTraitStore">>
RegionTraitStore(r, m) == <<"RegionTraitStore", r, m>>

mk_trait(def_id, substs, store, bounds) == <<"ty_trait", def_id, substs, store, bounds>>

\* FnSig with one input; ClosureTy {onceness, store, sig}; BareFnTy {fn_style, abi, sig}.
FnSig(input, output) == <<"FnSig", input, output>>
mk_closure(onceness, store, sig) == <<"ty_closure", onceness, store, sig>>
mk_bare_fn(fn_style, abi, sig) == <<"ty_bare_fn", fn_style, abi, sig>>

Tag(t) == t[1]

\* Field accessors, named as the source's patterns name them.
RptrMutbl(t) == t[3]
RptrTy(t) == t[4]
PtrMutbl(t) == t[2]
PtrTy(t) == t[3]
VecTy(t) == t[2]
VecLen(t) == t[3]
TraitDefId(t) == t[2]
TraitSubsts(t) == t[3]
TraitStoreOf(t) == t[4]
TraitBounds(t) == t[5]
ClosureOnceness(t) == t[2]
ClosureStore(t) == t[3]
ClosureSig(t) == t[4]
BareFnStyle(t) == t[2]
BareFnAbi(t) == t[3]
BareFnSig(t) == t[4]

IsRptr(t) == Tag(t) = "ty_rptr"
IsFixedVec(t) == Tag(t) = "ty_vec" /\ VecLen(t) # NoLen
IsDynVec(t) == Tag(t) = "ty_vec" /\ VecLen(t) = NoLen
IsRegionStore(s) == s[1] = "RegionTraitStore"

\* ------------------------------------------------- the inference context

TyVarIds == {0, 1}
Unbound == <<"Unbound">>

\* The context new_infer_ctxt builds: nothing bound, nothing constrained.
FreshCx ==
    [ty_var_bindings |-> [v \in TyVarIds |-> Unbound],
     region_constraints |-> {},
     num_region_vars |-> 0]

\* The part of the context that a rollback restores.
Bindings(cx) == <<cx.ty_var_bindings, cx.region_constraints>>

next_region_var(cx) == [cx EXCEPT !.num_region_vars = @ + 1]

\* The region variable the next next_region_var call returns.
NextVar(cx) == ReInfer(cx.num_region_vars)

\* resolve_type(infcx, t, try_resolve_tvar_shallow): follow the bindings of a
\* variable at the top of t, and stop at the first type that is no bound variable.
RECURSIVE resolve_type(_, _)
resolve_type(cx, t) ==
    IF Tag(t) = "ty_infer" /\ cx.ty_var_bindings[t[2]] # Unbound
    THEN resolve_type(cx, cx.ty_var_bindings[t[2]])
    ELSE t

\* --------------------------------------------------- the subtyping combiner

NoErr == <<"NoErr">>
terr_mismatch == <<"terr_mismatch">>
terr_mutability == <<"terr_mutability">>
terr_sorts(expected, found) == <<"terr_sorts", expected, found>>
terr_trait_stores == <<"terr_trait_stores">>
terr_builtin_bounds == <<"terr_builtin_bounds">>
terr_fn_style == <<"terr_fn_style_mismatch">>
terr_abi == <<"terr_abi_mismatch">>
terr_onceness == <<"terr_onceness_mismatch">>

SubOk(cx) == [ok |-> TRUE, err |-> NoErr, cx |-> cx]
SubErr(cx, e) == [ok |-> FALSE, err |-> e, cx |-> cx]

\* The combiner's mutability rule: equal, or an exclusive source used where a
\* shared target is expected.
MutblCompatible(m_a, m_b) == m_a = m_b \/ (m_a = MutMutable /\ m_b = MutImmutable)

\* &'a T <: &'b T needs 'b <= 'a: the constraint is recorded in the context.
contraregions(cx, r_a, r_b) ==
    [cx EXCEPT !.region_constraints = @ \cup {<<r_b, r_a>>}]

terr_cyclic_ty == <<"terr_cyclic_ty">>

\* Whether variable id occurs in t, looking through the bindings.
RECURSIVE Occurs(_, _, _)
Occurs(cx, id, t) ==
    CASE Tag(t) = "ty_infer" ->
            \/ t[2] = id
            \/ /\ cx.ty_var_bindings[t[2]] # Unbound
               /\ Occurs(cx, id, cx.ty_var_bindings[t[2]])
      [] Tag(t) \in {"ty_box", "ty_uniq", "ty_vec"} -> Occurs(cx, id, t[2])
      [] Tag(t) = "ty_rptr" -> Occurs(cx, id, RptrTy(t))
      [] Tag(t) = "ty_ptr" -> Occurs(cx, id, PtrTy(t))
      [] Tag(t) = "ty_trait" ->
            \E i \in 1..Len(TraitSubsts(t)) : Occurs(cx, id, TraitSubsts(t)[i])
      [] Tag(t) \in {"ty_closure", "ty_bare_fn"} ->
            Occurs(cx, id, t[4][2]) \/ Occurs(cx, id, t[4][3])
      [] OTHER -> FALSE

\* Bind variable id to t; a type that mentions the variable cannot be its value.
BindVar(cx, id, t) ==
    IF Occurs(cx, id, t) THEN SubErr(cx, terr_cyclic_ty)
    ELSE SubOk([cx EXCEPT !.ty_var_bindings[id] = t])

\* Sub::tys. Bindings and constraints are made as the walk goes, left to
\* right, so a failure deep in the walk leaves those made before it.
RECURSIVE SubTys(_, _, _)

\* a then b: s2 is evaluated in the context s1 left.
SubThen(cx, a1, b1, a2, b2) ==
    LET s1 == SubTys(cx, a1, b1)
    IN IF s1.ok THEN SubTys(s1.cx, a2, b2) ELSE s1

\* Sub::mts: the mutabilities are compatible; a mutable target is invariant
\* in its referent, a shared one covariant.
SubMts(cx, m_a, t_a, m_b, t_b) ==
    IF ~MutblCompatible(m_a, m_b) THEN SubErr(cx, terr_mutability)
    ELSE IF m_b = MutMutable THEN SubThen(cx, t_a, t_b, t_b, t_a)
    ELSE SubTys(cx, t_a, t_b)

\* trait_stores
SubStores(cx, s_a, s_b) ==
    IF IsRegionStore(s_a) /\ IsRegionStore(s_b)
    THEN IF MutblCompatible(s_a[3], s_b[3])
         THEN SubOk(contraregions(cx, s_a[2], s_b[2]))
         ELSE SubErr(cx, terr_trait_stores)
    ELSE IF s_a = s_b THEN SubOk(cx)
    ELSE SubErr(cx, terr_trait_stores)

\* fn_sigs: contravariant in the input, covariant in the output.
SubSigs(cx, sig_a, sig_b) == SubThen(cx, sig_b[2], sig_a[2], sig_a[3], sig_b[3])

RECURSIVE SubSubsts(_, _, _)
SubSubsts(cx, ss_a, ss_b) ==
    IF Len(ss_a) # Len(ss_b) THEN SubErr(cx, terr_mismatch)
    ELSE IF ss_a = <<>> THEN SubOk(cx)
    ELSE LET s == SubThen(cx, Head(ss_a), Head(ss_b), Head(ss_b), Head(ss_a))
         IN IF s.ok THEN SubSubsts(s.cx, Tail(ss_a), Tail(ss_b)) ELSE s

SubStructural(cx, a, b) ==
    IF Tag(a) # Tag(b) THEN SubErr(cx, terr_sorts(b, a))
    ELSE CASE Tag(a) \in {"ty_box", "ty_uniq"} -> SubTys(cx, a[2], b[2])
           [] Tag(a) = "ty_rptr" ->
                SubMts(contraregions(cx, a[2], b[2]),
                       RptrMutbl(a), RptrTy(a), RptrMutbl(b), RptrTy(b))
           [] Tag(a) = "ty_ptr" ->
                SubMts(cx, PtrMutbl(a), PtrTy(a), PtrMutbl(b), PtrTy(b))
           [] Tag(a) = "ty_vec" ->
                IF VecLen(a) = VecLen(b) THEN SubTys(cx, VecTy(a), VecTy(b))
                ELSE SubErr(cx, terr_sorts(b, a))
           [] Tag(a) = "ty_trait" ->
                IF TraitDefId(a) # TraitDefId(b) THEN SubErr(cx, terr_sorts(b, a))
                ELSE LET s1 == SubSubsts(cx, TraitSubsts(a), TraitSubsts(b))
                         s2 == SubStores(s1.cx, TraitStoreOf(a), TraitStoreOf(b))
                     IN IF ~s1.ok THEN s1
                        ELSE IF ~s2.ok THEN s2
                        ELSE IF TraitBounds(b) \subseteq TraitBounds(a) THEN s2
                        ELSE SubErr(s2.cx, terr_builtin_bounds)
           [] Tag(a) = "ty_closure" ->
                IF ClosureOnceness(a) # ClosureOnceness(b) THEN SubErr(cx, terr_onceness)
                ELSE LET s1 == SubStores(cx, ClosureStore(a), ClosureStore(b))
                     IN IF s1.ok THEN SubSigs(s1.cx, ClosureSig(a), ClosureSig(b)) ELSE s1
           [] Tag(a) = "ty_bare_fn" ->
                IF BareFnStyle(a) # BareFnStyle(b) THEN SubErr(cx, terr_fn_style)
                ELSE IF BareFnAbi(a) # BareFnAbi(b) THEN SubErr(cx, terr_abi)
                ELSE SubSigs(cx, BareFnSig(a), BareFnSig(b))
           [] OTHER -> SubErr(cx, terr_sorts(b, a))

SubTys(cx, a, b) ==
    IF a = b THEN SubOk(cx)
    ELSE IF Tag(a) = "ty_infer"
    THEN IF cx.ty_var_bindings[a[2]] # Unbound
         THEN SubTys(cx, cx.ty_var_bindings[a[2]], b)
         ELSE IF resolve_type(cx, b) = a THEN SubOk(cx)
         ELSE BindVar(cx, a[2], b)
    ELSE IF Tag(b) = "ty_infer"
    THEN IF cx.ty_var_bindings[b[2]] # Unbound
         THEN SubTys(cx, a, cx.ty_var_bindings[b[2]])
         ELSE BindVar(cx, b[2], a)
    ELSE SubStructural(cx, a, b)

\* infcx.try(f): the bindings f made are undone when f fails.
try(snapshot, s) == IF s.ok THEN s ELSE [s EXCEPT !.cx = snapshot]


\* ------------------------------------------------------ adjustments

Ok(adj) == <<"Ok", adj>>
Err(e) == <<"Err", e>>
IsOk(res) == res[1] = "Ok"
IsErr(res) == res[1] = "Err"

\* Option<ty::AutoAdjustment>: None, or Some of one of the three adjustments.
AdjNone == <<"None">>
AutoDerefRef(autoderefs, autoref) == <<"AutoDerefRef", autoderefs, autoref>>
AutoAddEnv(store) == <<"AutoAddEnv", store>>
AutoObject(store, bounds, def_id, substs) == <<"AutoObject", store, bounds, def_id, substs>>

AutoPtr(r, m) == <<"AutoPtr", r, m>>
AutoBorrowVec(r, m) == <<"AutoBorrowVec", r, m>>
AutoBorrowObj(r, m) == <<"AutoBorrowObj", r, m>>
AutoUnsize(r, m, kind) == <<"AutoUnsize", r, m, kind>>
AutoUnsizeRef(r, m, kind) == <<"AutoUnsizeRef", r, m, kind>>
AutoUnsizeUniq(kind) == <<"AutoUnsizeUniq", kind>>
AutoUnsafe(m) == <<"AutoUnsafe", m>>
UnsizeLength(len) == <<"UnsizeLength", len>>

\* What a rule hands back: the CoerceResult and the context it left.
Out(res, cx) == [res |-> res, cx |-> cx]

\* ------------------------------------------------------ the rules

\* ty::mt
mt(ty, mutbl) == [ty |-> ty, mutbl |-> mutbl]

\* A get that looks through the bindings of a variable.
get_resolved(t) == resolve_type(infcx, t)

\* ty::get(t).sty: the shape of t as written; no variable is resolved.
get(t) == t

\* The if_ok! macro on a combiner result: its error is returned, else adj is.
if_ok(s, adj) == IF s.ok THEN Out(Ok(adj), s.cx) ELSE Out(Err(s.err), s.cx)

\* The if_ok! macro on a CoerceResult.
if_ok_res(o, adj) == IF IsErr(o.res) THEN o ELSE Out(Ok(adj), o.cx)

\* Coerce::subtype
subtype(cx, a, b) == if_ok(SubTys(cx, a, b), AdjNone)

\* Coerce::unpack_actual_value: the shape f is applied to.
unpack_actual_value(cx, a) == resolve_type(cx, a)

\* coerce_borrowed_pointer that takes a reference by plain subtyping.
coerce_borrowed_pointer_no_reborrow(cx, a, sty_a, b, mutbl_b) ==
    LET r_borrow == NextVar(cx)
        cx1 == next_region_var(cx)
        inner_ty == sty_a[2]
        a_borrowed == mk_rptr(r_borrow, mutbl_b, inner_ty)
    IN IF Tag(sty_a) \notin {"ty_box", "ty_uniq"}
       THEN subtype(cx1, a, b)
       ELSE if_ok(SubTys(cx1, a_borrowed, b),
                  IF Tag(get(inner_ty)) = "ty_str" \/ IsDynVec(get(inner_ty))
                  THEN AutoDerefRef(0, AutoBorrowVec(r_borrow, mutbl_b))
                  ELSE AutoDerefRef(1, AutoPtr(r_borrow, mutbl_b)))

\* Coerce::coerce_borrowed_pointer
coerce_borrowed_pointer(cx, a, sty_a, b, mutbl_b) ==
    LET r_borrow == NextVar(cx)
        cx1 == next_region_var(cx)
        inner_ty == IF Tag(sty_a) = "ty_rptr" THEN RptrTy(sty_a) ELSE sty_a[2]
        a_borrowed == mk_rptr(r_borrow, mutbl_b, inner_ty)
    IN IF Tag(sty_a) \notin {"ty_box", "ty_uniq", "ty_rptr"}
       THEN subtype(cx1, a, b)
       ELSE if_ok(SubTys(cx1, a_borrowed, b),
                  IF Tag(get(inner_ty)) = "ty_str" \/ IsDynVec(get(inner_ty))
                  THEN AutoDerefRef(0, AutoBorrowVec(r_borrow, mutbl_b))
                  ELSE AutoDerefRef(1, AutoPtr(r_borrow, mutbl_b)))

\* Coerce::coerce_unsized_with_borrow
coerce_unsized_with_borrow(cx, a, sty_a, b, mutbl_b) ==
    LET r_borrow == NextVar(cx)
        cx1 == next_region_var(cx)
        unsized_ty == mk_slice(r_borrow, mutbl_b, VecTy(sty_a))
    IN IF IsFixedVec(sty_a)
       THEN if_ok(try(cx1, SubTys(cx1, unsized_ty, b)),
                  AutoDerefRef(0, AutoUnsizeRef(r_borrow, mutbl_b,
                                                UnsizeLength(VecLen(sty_a)[1]))))
       ELSE Out(Err(terr_mismatch), cx)

\* unsize_ty with the length it records one short.
unsize_ty_short(sty_a) ==
    IF IsFixedVec(sty_a)
    THEN <<mk_vec(VecTy(sty_a), NoLen), UnsizeLength(VecLen(sty_a)[1] - 1)>>
    ELSE <<>>

\* Coerce::unsize_ty: <<>> for None, <<ty, kind>> for Some((ty, kind)).
unsize_ty(sty_a) ==
    IF IsFixedVec(sty_a)
    THEN <<mk_vec(VecTy(sty_a), NoLen), UnsizeLength(VecLen(sty_a)[1])>>
    ELSE <<>>

\* Coerce::coerce_unsized
coerce_unsized(cx, a, sty_a, b) ==
    LET sty_b == get(b)
        t_a == IF Tag(sty_a) = "ty_uniq" THEN sty_a[2] ELSE RptrTy(sty_a)
        u == unsize_ty(unpack_actual_value(cx, t_a))
        r_borrow == NextVar(cx)
        cx1 == next_region_var(cx)
    IN IF Tag(sty_a) \in {"ty_uniq", "ty_rptr"} /\ Tag(sty_b) = "ty_rptr"
       THEN IF u = <<>> THEN Out(Err(terr_mismatch), cx)
            ELSE if_ok(try(cx1, SubTys(cx1, mk_rptr(r_borrow, RptrMutbl(sty_b), u[1]), b)),
                       AutoDerefRef(0, AutoUnsize(r_borrow, RptrMutbl(sty_b), u[2])))
       ELSE IF Tag(sty_a) = "ty_uniq" /\ Tag(sty_b) = "ty_uniq"
       THEN IF u = <<>> THEN Out(Err(terr_mismatch), cx)
            ELSE if_ok(try(cx, SubTys(cx, mk_uniq(u[1]), b)),
                       AutoDerefRef(0, AutoUnsizeUniq(u[2])))
       ELSE Out(Err(terr_mismatch), cx)

\* Coerce::coerce_borrowed_object
coerce_borrowed_object(cx, a, sty_a, b, b_mutbl) ==
    LET r_a == NextVar(cx)
        cx1 == next_region_var(cx)
        a_borrowed == mk_trait(TraitDefId(sty_a), TraitSubsts(sty_a),
                               RegionTraitStore(r_a, b_mutbl), TraitBounds(sty_a))
    IN IF Tag(sty_a) # "ty_trait" THEN subtype(cx1, a, b)
       ELSE if_ok_res(subtype(cx1, a_borrowed, b),
                      AutoDerefRef(0, AutoBorrowObj(r_a, b_mutbl)))

\* coerce_from_bare_fn without the test of the ABI and the style.
coerce_from_bare_fn_any_abi(cx, a, fn_ty_a, b) ==
    LET sty_b == unpack_actual_value(cx, b)
        fn_ty_b == sty_b
        adj == AutoAddEnv(ClosureStore(fn_ty_b))
        a_closure == mk_closure(ClosureOnceness(fn_ty_b), ClosureStore(fn_ty_b),
                                BareFnSig(fn_ty_a))
    IN IF Tag(sty_b) # "ty_closure" THEN subtype(cx, a, b)
       ELSE if_ok_res(subtype(cx, a_closure, b), adj)

\* Coerce::coerce_from_bare_fn
coerce_from_bare_fn(cx, a, fn_ty_a, b) ==
    LET sty_b == unpack_actual_value(cx, b)
        fn_ty_b == sty_b
        adj == AutoAddEnv(ClosureStore(fn_ty_b))
        a_closure == mk_closure(ClosureOnceness(fn_ty_b), ClosureStore(fn_ty_b),
                                BareFnSig(fn_ty_a))
    IN IF BareFnAbi(fn_ty_a) # "Rust" \/ BareFnStyle(fn_ty_a) # "NormalFn"
       THEN subtype(cx, a, b)
       ELSE IF Tag(sty_b) # "ty_closure" THEN subtype(cx, a, b)
       ELSE if_ok_res(subtype(cx, a_closure, b), adj)

\* Coerce::coerce_borrowed_fn
coerce_borrowed_fn(cx, a, sty_a, b) ==
    IF Tag(sty_a) = "ty_bare_fn" THEN coerce_from_bare_fn(cx, a, sty_a, b)
    ELSE subtype(cx, a, b)

\* coerce_unsafe_ptr that tags the adjustment with the mutability of a.
coerce_unsafe_ptr_source_mutbl(cx, a, sty_a, b, mt_b) ==
    LET mt_a == mt(RptrTy(sty_a), RptrMutbl(sty_a))
        a_unsafe == mk_ptr(mt_a.mutbl, mt_a.ty)
    IN IF Tag(sty_a) # "ty_rptr" THEN subtype(cx, a, b)
       ELSE if_ok_res(subtype(cx, a_unsafe, b), AutoDerefRef(1, AutoUnsafe(mt_a.mutbl)))

\* Coerce::coerce_unsafe_ptr
coerce_unsafe_ptr(cx, a, sty_a, b, mt_b) ==
    LET mt_a == mt(RptrTy(sty_a), RptrMutbl(sty_a))
        a_unsafe == mk_ptr(mt_a.mutbl, mt_a.ty)
    IN IF Tag(sty_a) # "ty_rptr" THEN subtype(cx, a, b)
       ELSE if_ok_res(subtype(cx, a_unsafe, b), AutoDerefRef(1, AutoUnsafe(mt_b.mutbl)))

\* coerce_object that first checks a against b by subtyping.
coerce_object_subtyped(cx, a, sty_a, b, trait_def_id, trait_substs, trait_store, bounds) ==
    if_ok_res(subtype(cx, a, b),
              AutoObject(trait_store, bounds, trait_def_id, trait_substs))

\* Coerce::coerce_object
coerce_object(cx, a, sty_a, b, trait_def_id, trait_substs, trait_store, bounds) ==
    Out(Ok(AutoObject(trait_store, bounds, trait_def_id, trait_substs)), cx)

\* ------------------------------------------------------ Coerce::tys

\* One rule attempted by tys: the rule, whether its shape guard matched, the
\* bindings before and after it, and what it returned.
Attempt(rule, matched, pre, o) ==
    [rule |-> rule, matched |-> matched,
     pre |-> Bindings(pre), post |-> Bindings(o.cx), res |-> o.res]

\* A step of tys: what its rule handed back, and whether tys returns it:
\* always, or only when the rule succeeded.
Step(rule, matched, pre, o, always) ==
    [res |-> o.res, cx |-> o.cx, returned |-> always \/ IsOk(o.res),
     log |-> <<Attempt(rule, matched, pre, o)>>]

\* A step whose match on b's shape selected no rule.
NoStep(cx) == [res |-> Err(terr_mismatch), cx |-> cx, returned |-> FALSE, log |-> <<>>]

\* The special case, returning whatever its rule returned.
tys_array_literal_abort(cx, a, b) ==
    LET sty_b == get(b)
        sty_a == unpack_actual_value(cx, a)
    IN IF Tag(sty_b) = "ty_rptr" /\ IsDynVec(get(RptrTy(sty_b)))
       THEN Step("coerce_unsized_with_borrow", IsFixedVec(sty_a), cx,
                 coerce_unsized_with_borrow(cx, a, sty_a, b, RptrMutbl(sty_b)), TRUE)
       ELSE NoStep(cx)

\* The special case of a sized array literal: b is &[T] or &mut [T].
tys_array_literal(cx, a, b) ==
    LET sty_b == get(b)
        sty_a == unpack_actual_value(cx, a)
    IN IF Tag(sty_b) = "ty_rptr" /\ IsDynVec(get(RptrTy(sty_b)))
       THEN Step("coerce_unsized_with_borrow", IsFixedVec(sty_a), cx,
                 coerce_unsized_with_borrow(cx, a, sty_a, b, RptrMutbl(sty_b)), FALSE)
       ELSE NoStep(cx)

\* The shapes coerce_unsized goes on with: a pointer to a fixed-size array,
\* and a reference, or an owned pointer for an owned a.
UnsizeShapes(cx, sty_a, sty_b) ==
    /\ \/ Tag(sty_a) \in {"ty_uniq", "ty_rptr"} /\ Tag(sty_b) = "ty_rptr"
       \/ Tag(sty_a) = "ty_uniq" /\ Tag(sty_b) = "ty_uniq"
    /\ unsize_ty(unpack_actual_value(cx, IF Tag(sty_a) = "ty_uniq" THEN sty_a[2]
                                         ELSE RptrTy(sty_a))) # <<>>

\* Consider coercing the subtype to a DST.
tys_unsize(cx, a, b) ==
    LET sty_a == unpack_actual_value(cx, a)
    IN Step("coerce_unsized", UnsizeShapes(cx, sty_a, get(b)), cx,
            coerce_unsized(cx, a, sty_a, b), FALSE)

\* The reference arm going on to the last match when its rule fails.
autoborrow_rptr_fall_through(cx, a, b) ==
    LET sty_b == get(b)
        sty_a == unpack_actual_value(cx, a)
        mutbl == IF Tag(get(RptrTy(sty_b))) = "ty_str" THEN MutImmutable
                 ELSE RptrMutbl(sty_b)
    IN Step("coerce_borrowed_pointer", TRUE, cx,
            coerce_borrowed_pointer(cx, a, sty_a, b, mutbl), FALSE)

\* The reference arm without the str case: the mutability is that of b.
autoborrow_rptr_keep_mutbl(cx, a, b) ==
    LET sty_b == get(b)
        sty_a == unpack_actual_value(cx, a)
    IN Step("coerce_borrowed_pointer", TRUE, cx,
            coerce_borrowed_pointer(cx, a, sty_a, b, RptrMutbl(sty_b)), TRUE)

\* b is a reference: auto-borrow, immutably when b refers to a str.
autoborrow_rptr(cx, a, b) ==
    LET sty_b == get(b)
        sty_a == unpack_actual_value(cx, a)
        mutbl == IF Tag(get(RptrTy(sty_b))) = "ty_str" THEN MutImmutable
                 ELSE RptrMutbl(sty_b)
    IN Step("coerce_borrowed_pointer", TRUE, cx,
            coerce_borrowed_pointer(cx, a, sty_a, b, mutbl), TRUE)

\* b is a borrowed closure.
autoborrow_closure(cx, a, b) ==
    Step("coerce_borrowed_fn", TRUE, cx,
         coerce_borrowed_fn(cx, a, unpack_actual_value(cx, a), b), TRUE)

\* b is an unsafe pointer.
autoborrow_ptr(cx, a, b) ==
    Step("coerce_unsafe_ptr", TRUE, cx,
         coerce_unsafe_ptr(cx, a, unpack_actual_value(cx, a), b,
                           mt(PtrTy(get(b)), PtrMutbl(get(b)))), TRUE)

\* The owned trait object arm without its match on the shape of a.
autoborrow_uniq_trait_unguarded(cx, a, b) ==
    LET sty_b == get(b)
        sty_a == unpack_actual_value(cx, a)
    IN Step("coerce_object", TRUE, cx,
            coerce_object(cx, a, sty_a, b, TraitDefId(sty_b), TraitSubsts(sty_b),
                          UniqTraitStore, TraitBounds(sty_b)),
            FALSE)

\* The owned trait object arm returning whatever its rule returned.
autoborrow_uniq_trait_final(cx, a, b) ==
    LET sty_b == get(b)
        sty_a == unpack_actual_value(cx, a)
    IN Step("coerce_object", Tag(sty_a) = "ty_uniq", cx,
            IF Tag(sty_a) = "ty_uniq"
            THEN coerce_object(cx, a, sty_a, b, TraitDefId(sty_b), TraitSubsts(sty_b),
                               UniqTraitStore, TraitBounds(sty_b))
            ELSE Out(Err(terr_mismatch), cx),
            TRUE)

\* b is an owned trait object.
autoborrow_uniq_trait(cx, a, b) ==
    LET sty_b == get(b)
        sty_a == unpack_actual_value(cx, a)
    IN Step("coerce_object", Tag(sty_a) = "ty_uniq", cx,
            IF Tag(sty_a) = "ty_uniq"
            THEN coerce_object(cx, a, sty_a, b, TraitDefId(sty_b), TraitSubsts(sty_b),
                               UniqTraitStore, TraitBounds(sty_b))
            ELSE Out(Err(terr_mismatch), cx),
            FALSE)

\* b is a borrowed trait object.
autoborrow_region_trait(cx, a, b) ==
    LET sty_b == get(b)
        sty_a == unpack_actual_value(cx, a)
        region == TraitStoreOf(sty_b)[2]
        m == TraitStoreOf(sty_b)[3]
    IN Step(IF Tag(sty_a) = "ty_rptr" THEN "coerce_object" ELSE "coerce_borrowed_object",
            TRUE, cx,
            IF Tag(sty_a) = "ty_rptr"
            THEN coerce_object(cx, a, sty_a, b, TraitDefId(sty_b), TraitSubsts(sty_b),
                               RegionTraitStore(region, m), TraitBounds(sty_b))
            ELSE coerce_borrowed_object(cx, a, sty_a, b, m),
            FALSE)

\* Examine the supertype and consider auto-borrowing.
tys_autoborrow(cx, a, b) ==
    LET sty_b == get(b)
    IN CASE Tag(sty_b) = "ty_rptr" -> autoborrow_rptr(cx, a, b)
         [] Tag(sty_b) = "ty_closure" /\ IsRegionStore(ClosureStore(sty_b)) ->
                autoborrow_closure(cx, a, b)
         [] Tag(sty_b) = "ty_ptr" -> autoborrow_ptr(cx, a, b)
         [] Tag(sty_b) = "ty_trait" /\ TraitStoreOf(sty_b) = UniqTraitStore ->
                autoborrow_uniq_trait(cx, a, b)
         [] Tag(sty_b) = "ty_trait" /\ IsRegionStore(TraitStoreOf(sty_b)) ->
                autoborrow_region_trait(cx, a, b)
         [] OTHER -> NoStep(cx)

\* The last match of tys: bare functions go to closures, the rest is subtyping.
tys_fallback(cx, a, b) ==
    LET sty_a == unpack_actual_value(cx, a)
    IN IF Tag(sty_a) = "ty_bare_fn"
       THEN Step("coerce_from_bare_fn", TRUE, cx, coerce_from_bare_fn(cx, a, sty_a, b), TRUE)
       ELSE Step("subtype", TRUE, cx, subtype(cx, a, b), TRUE)

\* What tys returns from step s, reached after the attempts in log.
Returned(log, s) == [res |-> s.res, cx |-> s.cx, log |-> log \o s.log]

\* tys from its last match on.
tys_from_fallback(log, cx, a, b) == Returned(log, tys_fallback(cx, a, b))

\* tys once the match on b's shape has run as step s.
tys_after_autoborrow(log, s, a, b) ==
    IF s.returned THEN Returned(log, s)
    ELSE tys_from_fallback(log \o s.log, s.cx, a, b)

\* tys once coerce_unsized has run as step s.
tys_after_unsize(log, s, a, b) ==
    IF s.returned THEN Returned(log, s)
    ELSE tys_after_autoborrow(log \o s.log, tys_autoborrow(s.cx, a, b), a, b)

\* tys once the array-literal special case has run as step s.
tys_after_array_literal(s, a, b) ==
    IF s.returned THEN Returned(<<>>, s)
    ELSE tys_after_unsize(s.log, tys_unsize(s.cx, a, b), a, b)

\* Coerce::tys
tys(cx, a, b) == tys_after_array_literal(tys_array_literal(cx, a, b), a, b)

\* ------------------------------------------------------ the types tried

FixedVecs == {mk_vec(ty_int, SomeLen(n)) : n \in 1..MaxLen}

\* What a pointer of the universe points to.
Pointees == {ty_int, ty_str, mk_vec(ty_int, NoLen), ty_infer(0)} \cup FixedVecs

TraitTys ==
    {mk_trait(0, <<>>, UniqTraitStore, {}),
     mk_trait(0, <<>>, UniqTraitStore, {"BoundSend"}),
     mk_trait(0, <<>>, RegionTraitStore(ReFree, MutImmutable), {}),
     mk_trait(0, <<>>, RegionTraitStore(ReFree, MutMutable), {}),
     mk_trait(0, <<>>, RegionTraitStore(ReFree, MutImmutable), {"BoundSend"})}

BareFns ==
    {mk_bare_fn("NormalFn", "Rust", FnSig(ty_int, ty_int)),
     mk_bare_fn("NormalFn", "Rust", FnSig(ty_int, ty_uint)),
     mk_bare_fn("UnsafeFn", "Rust", FnSig(ty_int, ty_int)),
     mk_bare_fn("NormalFn", "C", FnSig(ty_int, ty_int))}

ClosureTys ==
    {mk_closure("Many", RegionTraitStore(ReFree, MutMutable), FnSig(ty_int, ty_int)),
     mk_closure("Once", UniqTraitStore, FnSig(ty_int, ty_int)),
     mk_closure("Many", RegionTraitStore(ReFree, MutMutable), FnSig(ty_infer(1), ty_uint))}

\* The actual types a coercion is asked for.
ActualTypes ==
    {ty_int, ty_infer(0), mk_box(ty_int)} \cup FixedVecs
    \cup {mk_uniq(t) : t \in Pointees}
    \cup {mk_rptr(ReFree, m, t) : m \in Mutabilities, t \in Pointees}
    \cup TraitTys \cup BareFns
    \cup {mk_closure("Many", RegionTraitStore(ReFree, MutMutable), FnSig(ty_int, ty_int))}

\* The expected types, as the user wrote them.
ExpectedTypes ==
    {ty_int, ty_infer(1), mk_uniq(ty_int), mk_uniq(mk_vec(ty_int, NoLen))}
    \cup {mk_rptr(ReFree, m, t) :
            m \in Mutabilities, t \in Pointees \cup {mk_vec(ty_uint, NoLen)}}
    \cup {mk_ptr(m, ty_int) : m \in Mutabilities}
    \cup TraitTys \cup ClosureTys
    \cup {mk_bare_fn("UnsafeFn", "Rust", FnSig(ty_int, ty_int)),
          mk_bare_fn("NormalFn", "C", FnSig(ty_int, ty_int))}

\* What the type checker's earlier unifications bind each variable to.
BindTypes(v) ==
    IF v = 0
    THEN {mk_uniq(ty_int), mk_vec(ty_int, SomeLen(1)), ty_str,
          mk_bare_fn("NormalFn", "Rust", FnSig(ty_int, ty_int)),
          mk_rptr(ReFree, MutMutable, mk_vec(ty_int, SomeLen(1)))}
    ELSE {mk_rptr(ReFree, MutImmutable, mk_vec(ty_int, NoLen)),
          mk_ptr(MutImmutable, ty_int),
          mk_trait(0, <<>>, RegionTraitStore(ReFree, MutImmutable), {}),
          mk_closure("Many", RegionTraitStore(ReFree, MutMutable), FnSig(ty_int, ty_int))}

\* ------------------------------------------------------ clone of ~[A]

\* The largest uint of the model; the sizes tried stay far below the
\* largest uint of any target.
UintMax == 2147483647

\* The sizes of the element type A.
UnitSizes == {0, 1, 8}

\* raw::Slice
Slice(data, len) == [data |-> data, len |-> len]

\* uint::checked_mul: <<>> for None.
checked_mul(a, b) == IF a * b <= UintMax THEN <<a * b>> ELSE <<>>

\* The size of the buffer: <<>> when the unwrap of the product fails.
data_size(len, unit_size) ==
    IF unit_size = 0 THEN <<len>> ELSE checked_mul(len, unit_size)

\* The finally closure cleaning up whatever i is.
cleanup_always(i, len) == TRUE

\* The test of the finally closure: the loop did not get to the end.
cleanup_needed(i, len) == i < len

\* No call of clone yet.
CloneIdle ==
    [pc |-> "idle", len |-> 0, unit_size |-> 0, fail_at |-> 0,
     ret |-> "null", i |-> 0, j |-> 0, failing |-> FALSE,
     written |-> <<>>, dropped |-> <<>>, allocated |-> 0, deallocated |-> 0,
     slice |-> Slice("null", 0)]

\* ------------------------------------------------------ the state machine

NoTy == <<"NoTy">>

Init ==
    /\ infcx = FreshCx
    /\ status = "none"
    /\ arg_a = NoTy
    /\ arg_b = NoTy
    /\ cx_before = FreshCx
    /\ result = Err(NoErr)
    /\ attempts = <<>>
    /\ clone = CloneIdle

\* An earlier unification of the type checker: a subtype check that is
\* committed when it succeeds and rolled back when it fails.
Unify(v, t) ==
    /\ status = "none"
    /\ infcx' = try(infcx, SubTys(infcx, ty_infer(v), t)).cx
    /\ UNCHANGED <<status, arg_a, arg_b, cx_before, result, attempts, clone>>

\* An earlier allocation of a region variable by the type checker.
NextRegionVar ==
    /\ status = "none"
    /\ infcx.num_region_vars < MaxRegionVars
    /\ infcx' = next_region_var(infcx)
    /\ UNCHANGED <<status, arg_a, arg_b, cx_before, result, attempts, clone>>

\* The type checker calls Coerce(fields).tys(a, b).
Coerce(a, b) ==
    /\ status = "none"
    /\ LET out == tys(infcx, a, b)
       IN /\ infcx' = out.cx
          /\ result' = out.res
          /\ attempts' = out.log
    /\ status' = "returned"
    /\ arg_a' = a
    /\ arg_b' = b
    /\ cx_before' = infcx
    /\ UNCHANGED clone

Next ==
    \/ \E v \in TyVarIds : \E t \in BindTypes(v) : Unify(v, t)
    \/ NextRegionVar
    \/ \E a \in ActualTypes, b \in ExpectedTypes : Coerce(a, b)

Spec == Init /\ [][Next]_vars

\* The variables of the coercion, which a clone leaves alone.
coercion_vars == <<infcx, status, arg_a, arg_b, cx_before, result, attempts>>

\* clone is called on a ~[A] of length len whose elements have size
\* unit_size; the clone of the element at index fail_at fails (none fails
\* when fail_at = len). Lines 74-91: an empty array is returned as the empty
\* slice; otherwise the buffer is allocated and, for elements of non-zero
\* size, the loop is entered.
CloneCall(len, unit_size, fail_at) ==
    /\ clone.pc = "idle"
    /\ clone' =
          IF len = 0
          THEN [clone EXCEPT !.pc = "returned", !.len = len, !.unit_size = unit_size,
                             !.fail_at = fail_at, !.slice = Slice("null", 0)]
          ELSE IF data_size(len, unit_size) = <<>>
          THEN [clone EXCEPT !.pc = "failed", !.len = len, !.unit_size = unit_size,
                             !.fail_at = fail_at]
          ELSE IF unit_size > 0
          THEN [clone EXCEPT !.pc = "try", !.len = len, !.unit_size = unit_size,
                             !.fail_at = fail_at, !.ret = "ret",
                             !.allocated = @ + 1, !.i = 0]
          ELSE [clone EXCEPT !.pc = "returned", !.len = len, !.unit_size = unit_size,
                             !.fail_at = fail_at, !.ret = "ret",
                             !.allocated = @ + 1, !.slice = Slice("ret", len)]
    /\ UNCHANGED coercion_vars

\* One turn of the loop of the try closure: the element at i is cloned and
\* written at p.offset(i), then i is incremented.
TryWrite ==
    /\ clone.pc = "try"
    /\ clone.i < clone.len
    /\ clone.fail_at # clone.i
    /\ clone' = [clone EXCEPT !.written = Append(@, clone.i), !.i = @ + 1]
    /\ UNCHANGED coercion_vars

\* The clone of the element at i fails: the task unwinds out of the loop.
TryFail ==
    /\ clone.pc = "try"
    /\ clone.i < clone.len
    /\ clone.fail_at = clone.i
    /\ clone' = [clone EXCEPT !.pc = "finally", !.failing = TRUE]
    /\ UNCHANGED coercion_vars

\* The loop ends: the try closure returns.
TryDone ==
    /\ clone.pc = "try"
    /\ clone.i = clone.len
    /\ clone' = [clone EXCEPT !.pc = "finally"]
    /\ UNCHANGED coercion_vars

\* The finally closure is entered, after the try closure returned or while
\* it unwinds.
Finally ==
    /\ clone.pc = "finally"
    /\ clone' = IF cleanup_needed(clone.i, clone.len)
                THEN [clone EXCEPT !.pc = "cleanup", !.j = 0]
                ELSE [clone EXCEPT !.pc = "after_finally"]
    /\ UNCHANGED coercion_vars

\* for j in range(0, i): the element written at j is read out and dropped.
CleanupDrop ==
    /\ clone.pc = "cleanup"
    /\ clone.j < clone.i
    /\ clone' = [clone EXCEPT !.dropped = Append(@, clone.j), !.j = @ + 1]
    /\ UNCHANGED coercion_vars

\* After the loop of the finally closure the buffer is deallocated.
CleanupDeallocate ==
    /\ clone.pc = "cleanup"
    /\ clone.j = clone.i
    /\ clone' = [clone EXCEPT !.pc = "after_finally", !.deallocated = @ + 1]
    /\ UNCHANGED coercion_vars

\* After try_finally: the failure goes on to the caller, or the slice over
\* the buffer is returned.
CloneReturn ==
    /\ clone.pc = "after_finally"
    /\ clone' = IF clone.failing
                THEN [clone EXCEPT !.pc = "failed"]
                ELSE [clone EXCEPT !.pc = "returned",
                                   !.slice = Slice(clone.ret, clone.len)]
    /\ UNCHANGED coercion_vars

CloneNext ==
    \/ \E len \in 0..MaxCloneLen, unit_size \in UnitSizes :
          \E fail_at \in 0..len : CloneCall(len, unit_size, fail_at)
    \/ TryWrite
    \/ TryFail
    \/ TryDone
    \/ Finally
    \/ CleanupDrop
    \/ CleanupDeallocate
    \/ CloneReturn

CloneSpec == Init /\ [][CloneNext]_vars


\* ------------------------------------------------------ the claims

HasReturned == status = "returned"

\* The shape of a that the rules of the coercion saw.
ResolvedA == resolve_type(cx_before, arg_a)

\* The rules tys attempted, by name.
Rules == {attempts[i].rule : i \in 1..Len(attempts)}

\* The region variable the coercion allocated last.
LastVar == ReInfer(infcx.num_region_vars - 1)

\* Whether the coercion allocated a region variable.
AllocatedVar == infcx.num_region_vars > cx_before.num_region_vars

\* C1: whenever a rule attempt inside the coercion fails, the bindings of the
\* inference context are what they were before that attempt; after an Err the
\* bindings are those of before the call, and after a success the rules
\* abandoned on the way have left nothing: the successful rule started from
\* the bindings of before the call.
C1_FailedAttemptRestoresContext ==
    HasReturned =>
        /\ \A i \in 1..Len(attempts) : IsErr(attempts[i].res) => attempts[i].post = attempts[i].pre
        /\ IsErr(result) => Bindings(infcx) = Bindings(cx_before)
        /\ IsOk(result) => attempts[Len(attempts)].pre = Bindings(cx_before)

\* C2: when b is a type variable, whatever it is bound to, no unsizing,
\* borrowing, unsafe-pointer, closure or object rule fires, and for every a
\* whose resolved shape is no bare function the outcome is that of the plain
\* subtype check of a against b: no adjustment on success, its error
\* otherwise, and the context it leaves.
C2_ExpectedVariableNotResolved ==
    (HasReturned /\ Tag(arg_b) = "ty_infer") =>
        /\ \A i \in 1..Len(attempts) :
              \/ attempts[i].rule \in {"subtype", "coerce_from_bare_fn"}
              \/ attempts[i].rule = "coerce_unsized" /\ ~attempts[i].matched
        /\ Tag(ResolvedA) # "ty_bare_fn" =>
              /\ Rules = {"coerce_unsized", "subtype"}
              /\ result = IF SubTys(cx_before, arg_a, arg_b).ok THEN Ok(AdjNone)
                          ELSE Err(SubTys(cx_before, arg_a, arg_b).err)
              /\ infcx = SubTys(cx_before, arg_a, arg_b).cx

\* b is a variable bound to &[int] and a resolves to a fixed-size array, the
\* shapes of the array-literal rule; the coercion is the failed subtype check.
C2_Witness ==
    /\ HasReturned
    /\ Tag(arg_b) = "ty_infer"
    /\ IsRptr(resolve_type(cx_before, arg_b))
    /\ IsDynVec(RptrTy(resolve_type(cx_before, arg_b)))
    /\ IsFixedVec(ResolvedA)
    /\ IsErr(result)

\* Whether the array-literal rule unifies: a resolves to [T, ..n] and
\* &'r mutbl_b [T], with 'r fresh, is a subtype of b.
ArrayLiteralUnifies ==
    /\ IsFixedVec(ResolvedA)
    /\ SubTys(next_region_var(cx_before),
              mk_slice(NextVar(cx_before), RptrMutbl(arg_b), VecTy(ResolvedA)), arg_b).ok

\* C3: when b is a reference to a dynamic array and the array-literal rule
\* succeeds, the coercion returns that rule's adjustment (no deref, an
\* unsize-with-borrow auto-ref with the length of a) and attempts nothing
\* else, whatever the context held; when the rule fails, plain unsizing and
\* the borrowed-pointer rule are tried after it.
C3_ArrayLiteralRuleFirst ==
    (HasReturned /\ IsRptr(arg_b) /\ IsDynVec(RptrTy(arg_b))) =>
        /\ attempts[1].rule = "coerce_unsized_with_borrow"
        /\ IsOk(attempts[1].res) <=> ArrayLiteralUnifies
        /\ ArrayLiteralUnifies =>
              /\ result = Ok(AutoDerefRef(0,
                                AutoUnsizeRef(NextVar(cx_before), RptrMutbl(arg_b),
                                              UnsizeLength(VecLen(ResolvedA)[1]))))
              /\ Len(attempts) = 1
        /\ ~ArrayLiteralUnifies =>
              /\ Len(attempts) >= 2
              /\ attempts[2].rule = "coerce_unsized"
              /\ IsErr(attempts[2].res) =>
                    /\ Len(attempts) = 3
                    /\ attempts[3].rule = "coerce_borrowed_pointer"
                    /\ result = attempts[3].res

\* The array-literal rule succeeded for an a that is a variable bound by an
\* earlier unification.
C3_Witness ==
    /\ HasReturned
    /\ Tag(arg_a) = "ty_infer"
    /\ IsRptr(arg_b) /\ IsDynVec(RptrTy(arg_b))
    /\ ArrayLiteralUnifies
    /\ IsOk(result)

\* The array-literal rule failed on the element type, and the rules after it
\* were tried.
C3_WitnessFallThrough ==
    /\ HasReturned
    /\ IsRptr(arg_b) /\ IsDynVec(RptrTy(arg_b))
    /\ IsFixedVec(ResolvedA)
    /\ ~ArrayLiteralUnifies
    /\ Len(attempts) = 3


\* What a pointer a points to, as written.
Pointee(a) == IF Tag(a) = "ty_rptr" THEN RptrTy(a) ELSE a[2]

\* a is ~[T, ..n] or &[T, ..n] or &mut [T, ..n].
IsPtrToFixedVec(a) == Tag(a) \in {"ty_uniq", "ty_rptr"} /\ IsFixedVec(Pointee(a))

C4_WitnessOwned ==
    /\ HasReturned
    /\ Tag(arg_a) = "ty_uniq" /\ IsFixedVec(arg_a[2])
    /\ Tag(arg_b) = "ty_uniq" /\ IsDynVec(arg_b[2])
    /\ IsOk(result) /\ result[2][3][1] = "AutoUnsizeUniq"

\* a is ~T, &T or &mut T and b is &m T for the same T, with m a mutability
\* the source allows: a shared reference is only borrowed as shared.
BorrowOfSameType ==
    /\ HasReturned
    /\ Tag(arg_a) \in {"ty_uniq", "ty_rptr"}
    /\ IsRptr(arg_b)
    /\ RptrTy(arg_b) = Pointee(arg_a)
    /\ (IsRptr(arg_a) /\ RptrMutbl(arg_a) = MutImmutable) => RptrMutbl(arg_b) = MutImmutable

\* The adjustment the borrowed-pointer rule gives for a pointee T.
BorrowAdjustment(T, m) ==
    IF Tag(T) = "ty_str" \/ IsDynVec(T)
    THEN AutoDerefRef(0, AutoBorrowVec(LastVar, m))
    ELSE AutoDerefRef(1, AutoPtr(LastVar, m))

\* C5, as claimed: ~T, &mut T and &T coerce to &m T with one deref and a
\* pointer auto-ref of a fresh region, or, when T is a dynamic array or a str,
\* with no deref and a dynamic-array view; a reference is re-borrowed.
C5_Original ==
    BorrowOfSameType =>
        /\ result = Ok(BorrowAdjustment(Pointee(arg_a), RptrMutbl(arg_b)))
        /\ AllocatedVar

\* C5, amended: as claimed, except that for a str a mutable reference is
\* never produced: the rule borrows a str immutably, so the coercion to
\* &mut str fails on the mutability.
C5_BorrowedPointer ==
    BorrowOfSameType =>
        IF Tag(Pointee(arg_a)) = "ty_str" /\ RptrMutbl(arg_b) = MutMutable
        THEN result = Err(terr_mutability)
        ELSE /\ result = Ok(BorrowAdjustment(Pointee(arg_a), RptrMutbl(arg_b)))
             /\ AllocatedVar

\* A mutable reference was re-borrowed as a shared one.
C5_Witness ==
    /\ BorrowOfSameType
    /\ IsRptr(arg_a) /\ RptrMutbl(arg_a) = MutMutable
    /\ RptrMutbl(arg_b) = MutImmutable
    /\ IsOk(result) /\ result[2][2] = 1 /\ result[2][3][1] = "AutoPtr"

\* C6: &m T coerces to *m' T iff m = m', or m is mutable and m' is not; a
\* success is one deref tagged unsafe with m', anything else is a type error.
C6_UnsafePointer ==
    ( /\ HasReturned
      /\ IsRptr(arg_a) /\ Tag(arg_b) = "ty_ptr"
      /\ RptrTy(arg_a) = PtrTy(arg_b) ) =>
        IF \/ RptrMutbl(arg_a) = PtrMutbl(arg_b)
           \/ RptrMutbl(arg_a) = MutMutable /\ PtrMutbl(arg_b) = MutImmutable
        THEN result = Ok(AutoDerefRef(1, AutoUnsafe(PtrMutbl(arg_b))))
        ELSE IsErr(result)

\* &mut int was coerced to *int.
C6_Witness ==
    /\ HasReturned
    /\ arg_a = mk_rptr(ReFree, MutMutable, ty_int)
    /\ arg_b = mk_ptr(MutImmutable, ty_int)
    /\ result = Ok(AutoDerefRef(1, AutoUnsafe(MutImmutable)))

\* a resolves to a bare function of the Rust ABI and of normal style.
IsNativeFn(f) == BareFnAbi(f) = "Rust" /\ BareFnStyle(f) = "NormalFn"

\* The head of the adjustment of a successful result, "None" included.
AdjTag(res) == res[2][1]

\* The closure built from the signature of the bare function f and the
\* remaining fields of the closure c.
SyntheticClosure(f, c) == mk_closure(ClosureOnceness(c), ClosureStore(c), BareFnSig(f))

\* C7: a native, normal bare function coerces to a b that resolves to a
\* closure iff the closure built from its signature and the other fields of b
\* is a subtype of b, and the result adds an environment of b's storage; any
\* other bare function never adds an environment and succeeds only as plain
\* subtyping does, with no adjustment.
C7_BareFnToClosure ==
    (HasReturned /\ Tag(ResolvedA) = "ty_bare_fn") =>
        /\ (IsNativeFn(ResolvedA) /\ Tag(resolve_type(cx_before, arg_b)) = "ty_closure") =>
              IF SubTys(cx_before,
                        SyntheticClosure(ResolvedA, resolve_type(cx_before, arg_b)),
                        arg_b).ok
              THEN result = Ok(AutoAddEnv(ClosureStore(resolve_type(cx_before, arg_b))))
              ELSE IsErr(result)
        /\ ~IsNativeFn(ResolvedA) =>
              /\ IsOk(result) <=> SubTys(cx_before, arg_a, arg_b).ok
              /\ IsOk(result) => result = Ok(AdjNone)

\* A native bare function became a closure whose signature held a variable.
C7_Witness ==
    /\ HasReturned
    /\ Tag(ResolvedA) = "ty_bare_fn" /\ IsNativeFn(ResolvedA)
    /\ Tag(arg_b) = "ty_closure"
    /\ Tag(ClosureSig(arg_b)[2]) = "ty_infer"
    /\ IsOk(result) /\ AdjTag(result) = "AutoAddEnv"

\* A foreign bare function was refused as a closure.
C7_WitnessForeign ==
    /\ HasReturned
    /\ Tag(ResolvedA) = "ty_bare_fn" /\ BareFnAbi(ResolvedA) # "Rust"
    /\ Tag(arg_b) = "ty_closure"
    /\ BareFnSig(ResolvedA) = ClosureSig(arg_b)
    /\ IsErr(result)

\* a and b are the same trait object type.
SameTraitObject == HasReturned /\ Tag(arg_a) = "ty_trait" /\ arg_b = arg_a

\* The rule whose result was returned.
LastRule == attempts[Len(attempts)].rule

\* C8, as claimed: coercing a trait object type to itself gives no
\* adjustment, by the plain subtyping of the last step.
C8_Original ==
    SameTraitObject => result = Ok(AdjNone) /\ LastRule = "subtype"

\* C8, amended: an owned trait object coerced to itself gives no adjustment,
\* by the plain subtyping of the last step; a borrowed one is re-borrowed: the
\* result is a view of the object, no deref, at a fresh region and with the
\* mutability of b, and the last step is not reached. Neither gives an Object
\* adjustment.
C8_IdenticalTraitObject ==
    SameTraitObject =>
        IF TraitStoreOf(arg_b) = UniqTraitStore
        THEN result = Ok(AdjNone) /\ LastRule = "subtype"
        ELSE /\ result = Ok(AutoDerefRef(0, AutoBorrowObj(NextVar(cx_before),
                                                          TraitStoreOf(arg_b)[3])))
             /\ LastRule = "coerce_borrowed_object"
             /\ AllocatedVar

\* An owned trait object with a bound was coerced to itself.
C8_Witness ==
    /\ SameTraitObject
    /\ TraitStoreOf(arg_b) = UniqTraitStore /\ TraitBounds(arg_b) # {}
    /\ result = Ok(AdjNone)

\* A borrowed trait object was coerced to itself.
C8_WitnessBorrowed ==
    /\ SameTraitObject
    /\ IsRegionStore(TraitStoreOf(arg_b))
    /\ IsOk(result)

\* The i-th rule tried had its shape match and its subtype check fail.
CommittedFailure(i) == attempts[i].matched /\ IsErr(attempts[i].res)

\* The rules that are run inside a snapshot or whose failure the trait
\* object arms discard.
TentativeRules ==
    {"coerce_unsized_with_borrow", "coerce_unsized", "coerce_object",
     "coerce_borrowed_object"}

\* C9, as claimed: when a rule whose shape matched fails, that error is the
\* result and no further rule is tried.
C9_Original ==
    HasReturned =>
        \A i \in 1..Len(attempts) :
            CommittedFailure(i) => i = Len(attempts) /\ result = attempts[i].res

\* C9, amended: when the borrowed-pointer rule, the borrowed-closure rule,
\* the unsafe-pointer rule, the bare-function rule or plain subtyping fails
\* after its shape matched, that error is the result and no further rule is
\* tried. The array-literal rule, the unsizing rule and the trait-object
\* rules are tentative: their failure is dropped and the next rule is
\* tried, so the error returned is always that of the last rule tried.
C9_CommittedErrorReturned ==
    HasReturned =>
        /\ \A i \in 1..Len(attempts) :
              (CommittedFailure(i) /\ attempts[i].rule \notin TentativeRules) =>
                  i = Len(attempts) /\ result = attempts[i].res
        /\ \A i \in 1..Len(attempts) :
              (IsErr(attempts[i].res) /\ attempts[i].rule \in TentativeRules) =>
                  i < Len(attempts)
        /\ result = attempts[Len(attempts)].res

\* The borrowed-pointer rule failed after the unsizing rule had matched and
\* failed, and its error was returned.
C9_Witness ==
    /\ HasReturned
    /\ Len(attempts) >= 2
    /\ CommittedFailure(Len(attempts) - 1)
    /\ LastRule = "coerce_borrowed_pointer"
    /\ CommittedFailure(Len(attempts))
    /\ result # attempts[Len(attempts) - 1].res

\* The mutability of the auto-ref of an adjustment.
AutoRefMutbl(adj) ==
    IF adj[3][1] \in {"AutoUnsizeUniq", "AutoUnsafe"} THEN adj[3][2] ELSE adj[3][3]

\* C10: when b is a reference to a str the borrowed-pointer rule borrows
\* immutably whatever b says: every adjustment it gives is immutable, it
\* fails on the mutability when b is &mut str and a is a pointer, and ~str to
\* &str gives a view, no deref, at a fresh region, immutable.
C10_StrBorrowedImmutably ==
    (HasReturned /\ IsRptr(arg_b) /\ Tag(RptrTy(arg_b)) = "ty_str") =>
        /\ LastRule = "coerce_borrowed_pointer"
        /\ (IsOk(result) /\ result # Ok(AdjNone)) =>
              /\ AdjTag(result) = "AutoDerefRef"
              /\ result[2][3][1] \in {"AutoBorrowVec", "AutoPtr"}
              /\ AutoRefMutbl(result[2]) = MutImmutable
        /\ (RptrMutbl(arg_b) = MutMutable
              /\ Tag(ResolvedA) \in {"ty_box", "ty_uniq", "ty_rptr"}) =>
              result = Err(terr_mutability)
        /\ (arg_a = mk_uniq(ty_str) /\ RptrMutbl(arg_b) = MutImmutable) =>
              /\ result = Ok(AutoDerefRef(0, AutoBorrowVec(LastVar, MutImmutable)))
              /\ AllocatedVar

\* ~str was borrowed as &str.
C10_Witness ==
    /\ HasReturned
    /\ arg_a = mk_uniq(ty_str)
    /\ arg_b = mk_rptr(ReFree, MutImmutable, ty_str)
    /\ IsOk(result)

\* ~str was refused as &mut str.
C10_WitnessMutable ==
    /\ HasReturned
    /\ arg_a = mk_uniq(ty_str)
    /\ arg_b = mk_rptr(ReFree, MutMutable, ty_str)
    /\ result = Err(terr_mutability)

\* b is an owned trait object.
OwnedObjectExpected ==
    HasReturned /\ Tag(arg_b) = "ty_trait" /\ TraitStoreOf(arg_b) = UniqTraitStore

\* b is a borrowed trait object.
BorrowedObjectExpected ==
    HasReturned /\ Tag(arg_b) = "ty_trait" /\ IsRegionStore(TraitStoreOf(arg_b))

\* C11: an a that resolves to an owned pointer, whatever it points to,
\* coerces to an owned trait object b with the Object adjustment made of b's
\* store, bounds, trait and substitutions; no rule ran a subtype check on
\* the way and the context is what it was before the call.
C11_OwnedObject ==
    (OwnedObjectExpected /\ Tag(ResolvedA) = "ty_uniq") =>
        /\ result = Ok(AutoObject(UniqTraitStore, TraitBounds(arg_b),
                                  TraitDefId(arg_b), TraitSubsts(arg_b)))
        /\ Len(attempts) = 2
        /\ attempts[1].rule = "coerce_unsized" /\ ~attempts[1].matched
        /\ attempts[2].rule = "coerce_object"
        /\ infcx = cx_before

\* A variable bound to ~int was made an owned trait object with a bound.
C11_Witness ==
    /\ OwnedObjectExpected
    /\ Tag(arg_a) = "ty_infer" /\ Tag(ResolvedA) = "ty_uniq"
    /\ TraitBounds(arg_b) # {}
    /\ IsOk(result) /\ AdjTag(result) = "AutoObject"

\* C12, as claimed: when a resolves to a reference and b is a borrowed
\* trait object, an Object adjustment is returned only with a store whose
\* region was allocated by this call, not b's own region.
C12_BorrowedObjectFreshRegion ==
    (BorrowedObjectExpected /\ Tag(ResolvedA) = "ty_rptr"
       /\ IsOk(result) /\ AdjTag(result) = "AutoObject") =>
        /\ AllocatedVar
        /\ result[2][2] = RegionTraitStore(NextVar(cx_before), TraitStoreOf(arg_b)[3])
        /\ result[2][2][2] # TraitStoreOf(arg_b)[2]

\* What the code does for a reference against a borrowed trait object: the
\* Object adjustment is made of b's own store, with no region allocated and
\* no subtype check.
C12_BorrowedObjectAsCoded ==
    (BorrowedObjectExpected /\ Tag(ResolvedA) = "ty_rptr") =>
        /\ result = Ok(AutoObject(TraitStoreOf(arg_b), TraitBounds(arg_b),
                                  TraitDefId(arg_b), TraitSubsts(arg_b)))
        /\ infcx = cx_before
        /\ LastRule = "coerce_object"

\* The result of the last match of tys on the arguments of the call.
FallbackResult ==
    IF Tag(ResolvedA) = "ty_bare_fn"
    THEN coerce_from_bare_fn(cx_before, arg_a, ResolvedA, arg_b).res
    ELSE subtype(cx_before, arg_a, arg_b).res

\* C13, as claimed: when b is an owned trait object and a does not resolve
\* to an owned pointer, the mismatch of the owned-object arm is the result
\* and the last match is not tried.
C13_Original ==
    (OwnedObjectExpected /\ Tag(ResolvedA) # "ty_uniq") =>
        /\ result = Err(terr_mismatch)
        /\ LastRule = "coerce_object"

\* C13, amended: when b is an owned trait object and a does not resolve to
\* an owned pointer, the mismatch of the owned-object arm is dropped and the
\* last match is tried, as for a borrowed trait object: the result is that
\* of the bare-function rule when a resolves to a bare function, of plain
\* subtyping otherwise.
C13_OwnedObjectMismatchFallsThrough ==
    (OwnedObjectExpected /\ Tag(ResolvedA) # "ty_uniq") =>
        /\ Len(attempts) = 3
        /\ attempts[2].rule = "coerce_object" /\ ~attempts[2].matched
        /\ attempts[2].res = Err(terr_mismatch)
        /\ LastRule = IF Tag(ResolvedA) = "ty_bare_fn" THEN "coerce_from_bare_fn"
                      ELSE "subtype"
        /\ result = FallbackResult

\* An unbound variable was accepted as an owned trait object by subtyping.
C13_Witness ==
    /\ OwnedObjectExpected
    /\ arg_a = ty_infer(0) /\ ResolvedA = ty_infer(0)
    /\ result = Ok(AdjNone)
    /\ infcx.ty_var_bindings[0] = arg_b

\* C14, as claimed: a shared reference to a fixed-size array is never
\* coerced to a mutable reference to a dynamic array.
C14_SharedNeverUnsizedToMutable ==
    ( /\ HasReturned
      /\ IsRptr(ResolvedA) /\ RptrMutbl(ResolvedA) = MutImmutable
      /\ IsFixedVec(resolve_type(cx_before, RptrTy(ResolvedA)))
      /\ IsRptr(arg_b) /\ RptrMutbl(arg_b) = MutMutable
      /\ IsDynVec(RptrTy(arg_b)) ) =>
        IsErr(result)

\* What the code does: the mutability of a is not looked at, and &[T, ..n]
\* becomes &mut [T] by the unsizing rule.
C14_UnsizeIgnoresSourceMutability ==
    ( /\ HasReturned
      /\ IsRptr(ResolvedA) /\ IsFixedVec(RptrTy(ResolvedA))
      /\ IsRptr(arg_b) /\ IsDynVec(RptrTy(arg_b))
      /\ VecTy(RptrTy(arg_b)) = VecTy(RptrTy(ResolvedA)) ) =>
        /\ LastRule = "coerce_unsized"
        /\ result = Ok(AutoDerefRef(0,
                         AutoUnsize(NextVar(cx_before), RptrMutbl(arg_b),
                                    UnsizeLength(VecLen(RptrTy(ResolvedA))[1]))))

\* The indices 0 .. n-1 in order.
IndicesBelow(n) == [k \in 1..n |-> k - 1]

\* clone was called on a non-empty array of elements of non-zero size.
CloneOfSized == clone.pc # "idle" /\ clone.len > 0 /\ clone.unit_size > 0

\* clone is over: it returned or its failure went on to the caller.
CloneOver == clone.pc \in {"returned", "failed"}

\* C15: in a clone of a non-empty ~[A] of elements of non-zero size the
\* elements are cloned and written in the order of their indices; when the
\* clone of the element at i fails, the cleanup drops the i elements written,
\* 0 .. i-1, each once, and deallocates the buffer once; when all the
\* elements are written the cleanup drops nothing and deallocates nothing and
\* the slice over the buffer is returned. For an empty array nothing is
\* allocated and the empty slice is returned.
C15_CloneCleansUpWhatItWrote ==
    /\ CloneOfSized =>
          /\ clone.written = IndicesBelow(Len(clone.written))
          /\ clone.pc \in {"try", "finally", "cleanup", "after_finally"} =>
                Len(clone.written) = clone.i
          /\ clone.allocated = 1
    /\ (CloneOfSized /\ CloneOver /\ clone.fail_at < clone.len) =>
          /\ clone.pc = "failed"
          /\ clone.written = IndicesBelow(clone.fail_at)
          /\ clone.dropped = IndicesBelow(clone.fail_at)
          /\ clone.deallocated = 1
    /\ (CloneOfSized /\ CloneOver /\ clone.fail_at = clone.len) =>
          /\ clone.pc = "returned"
          /\ clone.written = IndicesBelow(clone.len)
          /\ clone.dropped = <<>>
          /\ clone.deallocated = 0
          /\ clone.slice = Slice(clone.ret, clone.len)
    /\ (clone.pc # "idle" /\ clone.len = 0) =>
          /\ clone.pc = "returned"
          /\ clone.allocated = 0 /\ clone.deallocated = 0
          /\ clone.written = <<>>
          /\ clone.slice = Slice("null", 0)

\* The clone of the last element of the longest array failed, and the
\* elements before it were dropped.
C15_Witness ==
    /\ clone.pc = "failed"
    /\ clone.len = MaxCloneLen /\ clone.unit_size > 0
    /\ clone.fail_at = clone.len - 1
    /\ Len(clone.dropped) = clone.len - 1
    /\ clone.deallocated = 1

\* The longest array was cloned to the end.
C15_WitnessCloned ==
    /\ clone.pc = "returned"
    /\ clone.len = MaxCloneLen /\ clone.unit_size > 0
    /\ Len(clone.written) = clone.len

====
